---------------------------- MODULE Spec2Model ----------------------------
(***************************************************************************)
(* Model of the bidirectional UML / SQL converter (src/app.py).            *)
(*                                                                         *)
(* Text is modelled as sequences of one-character strings, so that         *)
(* lower(), upper(), split(), strip(), substring tests and f-string        *)
(* concatenation are computed as the code computes them.  An XML           *)
(* attribute that may be absent is an option: <<>> when absent, <<s>>      *)
(* when present with value s.  Documents are modelled at the level the     *)
(* code reads them: element trees for markup, statements with their        *)
(* column-definition text for SQL scripts.                                 *)
(***************************************************************************)
EXTENDS Integers, Sequences, FiniteSets, TLC

(***************************************************************************)
(* Bounds of the model.                                                    *)
(***************************************************************************)
MaxUpper == 2
MaxAttrs == 2
MaxSteps == 3

(***************************************************************************)
(* Strings.                                                                *)
(***************************************************************************)
UpperLetters ==
  <<"A","B","C","D","E","F","G","H","I","J","K","L","M",
    "N","O","P","Q","R","S","T","U","V","W","X","Y","Z">>

LowerLetters ==
  <<"a","b","c","d","e","f","g","h","i","j","k","l","m",
    "n","o","p","q","r","s","t","u","v","w","x","y","z">>

DigitChars == <<"0","1","2","3","4","5","6","7","8","9">>

UpperSet == {UpperLetters[i] : i \in 1..26}

LowerSet == {LowerLetters[i] : i \in 1..26}

DigitSet == {DigitChars[i] : i \in 1..10}

LowerMap == [c \in UpperSet |-> LowerLetters[CHOOSE i \in 1..26 : UpperLetters[i] = c]]

UpperMap == [c \in LowerSet |-> UpperLetters[CHOOSE i \in 1..26 : LowerLetters[i] = c]]

DigitMap == [c \in DigitSet |-> (CHOOSE i \in 1..10 : DigitChars[i] = c) - 1]

LowerChar(c) == IF c \in UpperSet THEN LowerMap[c] ELSE c

UpperChar(c) == IF c \in LowerSet THEN UpperMap[c] ELSE c

Lower(s) == [i \in 1..Len(s) |-> LowerChar(s[i])]

Upper(s) == [i \in 1..Len(s) |-> UpperChar(s[i])]

\* Python's `sub in s`
Contains(sub, s) ==
  \E i \in 1..(Len(s) - Len(sub) + 1) : SubSeq(s, i, i + Len(sub) - 1) = sub

IsDigitChar(c) == c \in DigitSet

DigitValue(c) == DigitMap[c]

\* str.isdigit(): non-empty and every character a digit
IsDigit(s) == Len(s) > 0 /\ \A i \in 1..Len(s) : IsDigitChar(s[i])

RECURSIVE DigitsValue(_)
DigitsValue(s) ==
  IF Len(s) = 0 THEN 0
  ELSE 10 * DigitsValue(SubSeq(s, 1, Len(s) - 1)) + DigitValue(s[Len(s)])

\* whether int(s) returns; otherwise it raises ValueError
IntParses(s) ==
  \/ IsDigit(s)
  \/ Len(s) > 1 /\ s[1] \in {"-", "+"} /\ IsDigit(Tail(s))

\* str(n) for a natural number
RECURSIVE NatToStr(_)
NatToStr(n) ==
  IF n < 10 THEN <<DigitChars[n + 1]>>
  ELSE NatToStr(n \div 10) \o <<DigitChars[(n % 10) + 1]>>

\* s.strip(chars)
RECURSIVE LStrip(_, _)
LStrip(s, chars) ==
  IF Len(s) > 0 /\ s[1] \in chars THEN LStrip(Tail(s), chars) ELSE s

RECURSIVE RStrip(_, _)
RStrip(s, chars) ==
  IF Len(s) > 0 /\ s[Len(s)] \in chars
  THEN RStrip(SubSeq(s, 1, Len(s) - 1), chars) ELSE s

Strip(s, chars) == RStrip(LStrip(s, chars), chars)

\* the maximal runs of characters of s that are not in seps
RECURSIVE SplitFrom(_, _, _, _, _)
SplitFrom(s, seps, i, cur, acc) ==
  IF i > Len(s) THEN (IF cur = <<>> THEN acc ELSE Append(acc, cur))
  ELSE IF s[i] \in seps
       THEN SplitFrom(s, seps, i + 1, <<>>, IF cur = <<>> THEN acc ELSE Append(acc, cur))
       ELSE SplitFrom(s, seps, i + 1, Append(cur, s[i]), acc)

\* s.split()
Split(s) == SplitFrom(s, {" "}, 1, <<>>, <<>>)

\* options: an attribute that may be absent
Absent == <<>>

Some(s) == <<s>>

IsAbsent(o) == Len(o) = 0

\* attrib.get(name, default)
Get(o, default) == IF IsAbsent(o) THEN default ELSE o[1]

\* truthiness of attrib.get(name): present and not empty
Truthy(o) == ~IsAbsent(o) /\ Len(o[1]) > 0

(***************************************************************************)
(* String constants of the source.                                         *)
(***************************************************************************)
sString == <<"S","t","r","i","n","g">>

sInteger == <<"I","n","t","e","g","e","r">>

sBoolean == <<"B","o","o","l","e","a","n">>

sFloat == <<"F","l","o","a","t">>

sDouble == <<"D","o","u","b","l","e">>

sLong == <<"L","o","n","g">>

sDate == <<"D","a","t","e">>

sVARCHAR255 == <<"V","A","R","C","H","A","R","(","2","5","5",")">>

sINT == <<"I","N","T">>

sBOOLEAN == <<"B","O","O","L","E","A","N">>

sFLOAT == <<"F","L","O","A","T">>

sDOUBLE == <<"D","O","U","B","L","E">>

sBIGINT == <<"B","I","G","I","N","T">>

sDATE == <<"D","A","T","E">>

sCHAR == <<"C","H","A","R">>

sTEXT == <<"T","E","X","T">>

sVARCHAR == <<"V","A","R","C","H","A","R">>

sREAL == <<"R","E","A","L">>

sid == <<"i","d">>

s_id == <<"_","i","d">>

s_join == <<"_","j","o","i","n">>

s_ref == <<"_","r","e","f">>

sref1 == <<"r","e","f","1">>

sref2 == <<"r","e","f","2">>

sPRIMARY_KEY == <<"P","R","I","M","A","R","Y"," ","K","E","Y">>

sprimary_key == <<"p","r","i","m","a","r","y"," ","k","e","y">>

sNOT_NULL == <<"N","O","T"," ","N","U","L","L">>

sFOREIGN == <<"F","O","R","E","I","G","N">>

sFOREIGN_KEY == <<"F","O","R","E","I","G","N"," ","K","E","Y">>

sREFERENCES == <<"R","E","F","E","R","E","N","C","E","S">>

sid_ == <<"i","d","_">>

sclass_ == <<"c","l","a","s","s","_">>

s0 == <<"0">>

s1 == <<"1">>

sMinus1 == <<"-","1">>

\* The backtick character; it is written ' here because a TLA+ string cannot
\* hold a backtick.
Backtick == "'"

\* f-string quoting of an identifier between backticks
BQ(s) == <<Backtick>> \o s \o <<Backtick>>

(***************************************************************************)
(* TYPE_MAPPING (src/app.py:9-17)                                          *)
(***************************************************************************)
TypeMappingTable ==
  [t \in {sString, sInteger, sBoolean, sFloat, sDouble, sLong, sDate} |->
     CASE t = sString  -> sVARCHAR255
       [] t = sInteger -> sINT
       [] t = sBoolean -> sBOOLEAN
       [] t = sFloat   -> sFLOAT
       [] t = sDouble  -> sDOUBLE
       [] t = sLong    -> sBIGINT
       [] t = sDate    -> sDATE]


(***************************************************************************)
(* Python dicts (insertion ordered) as sequences of <<key, value>>.        *)
(***************************************************************************)
HasKey(d, k) == \E i \in 1..Len(d) : d[i][1] = k

\* d.get(k): an option
DictGet(d, k) ==
  IF HasKey(d, k) THEN Some(d[CHOOSE i \in 1..Len(d) : d[i][1] = k][2])
  ELSE Absent

\* d[k] = v: an existing key keeps its place
DictPut(d, k, v) ==
  IF HasKey(d, k)
  THEN [i \in 1..Len(d) |-> IF d[i][1] = k THEN <<k, v>> ELSE d[i]]
  ELSE Append(d, <<k, v>>)

(***************************************************************************)
(* Documents.                                                              *)
(*   UML document:  [wf, classes, assocs]                                  *)
(*     class  [id, name, attrs], attribute [name, type]  (options)         *)
(*     assoc  [ends], end [type, name, lower, upper]     (options)         *)
(*   SQL script:    [stmts], a statement is one of                         *)
(*     [kind |-> "create", name (option), defs (definition texts)]         *)
(*     [kind |-> "addcol", table, col]                                     *)
(*     [kind |-> "addfk", table, col, ref, refcol]                         *)
(*     [kind |-> "other"]                                                  *)
(*   Schema markup: [wf, tables], table [name, columns, fks]               *)
(*     column [name, type, primaryKey, nullable], fk [targetTable, refs]   *)
(*   wf = FALSE: the text is not well-formed XML.                          *)
(***************************************************************************)

\* line 50: TYPE_MAPPING.get(attr_type, 'VARCHAR(255)') if attr_type else ...
ToSqlType(mapping, attr_type) ==
  IF Truthy(attr_type) /\ attr_type[1] \in DOMAIN mapping
  THEN mapping[attr_type[1]]
  ELSE sVARCHAR255

\* lines 46-52: the named attributes of a class element, in document order
NamedAttrs(mapping, elem) ==
  LET named == SelectSeq(elem.attrs, LAMBDA a : Truthy(a.name))
  IN  [i \in 1..Len(named) |->
         [name |-> named[i].name[1], type |-> ToSqlType(mapping, named[i].type)]]

\* line 53: any(a[0].lower() == 'id' for a in attrs)
HasIdAttr(attrs) == \E i \in 1..Len(attrs) : Lower(attrs[i].name) = sid

\* lines 56-62: the primary-key marker on every attribute named id
MarkIdAttrs(attrs) ==
  [i \in 1..Len(attrs) |->
     IF Lower(attrs[i].name) = sid /\ ~Contains(sprimary_key, Lower(attrs[i].type))
     THEN [name |-> attrs[i].name, type |-> attrs[i].type \o <<" ">> \o sPRIMARY_KEY]
     ELSE attrs[i]]

\* lines 46-62 with the synthetic id appended instead of inserted at 0
ClassAttrsIdLast(mapping, elem) ==
  LET attrs == NamedAttrs(mapping, elem)
  IN  IF ~HasIdAttr(attrs)
      THEN attrs \o <<[name |-> sid, type |-> sINT \o <<" ">> \o sPRIMARY_KEY]>>
      ELSE MarkIdAttrs(attrs)

\* lines 46-62: the columns of the table of a class element
ClassAttrs(mapping, elem) ==
  LET attrs == NamedAttrs(mapping, elem)
  IN  IF ~HasIdAttr(attrs)
      THEN <<[name |-> sid, type |-> sINT \o <<" ">> \o sPRIMARY_KEY]>> \o attrs
      ELSE MarkIdAttrs(attrs)

\* line 42: the class element is read (it has an identifier and a name)
ClassAccepted(elem) == Truthy(elem.id) /\ Truthy(elem.name)

\* parse_classes: [class_ids, classes] after the first n class elements
RECURSIVE ParseClasses(_, _, _)
ParseClasses(mapping, elems, n) ==
  IF n = 0 THEN [class_ids |-> <<>>, classes |-> <<>>]
  ELSE LET st == ParseClasses(mapping, elems, n - 1)
           elem == elems[n]
       IN  IF ~ClassAccepted(elem) THEN st
           ELSE [class_ids |-> DictPut(st.class_ids, elem.id[1], elem.name[1]),
                 classes |-> DictPut(st.classes, elem.name[1],
                                     ClassAttrs(mapping, elem))]

\* lines 79-80: int(upper_raw) if upper_raw.isdigit() else -1
ParseUpper(o) ==
  LET raw == Get(o, s1)
  IN  IF IsDigit(raw) THEN DigitsValue(raw) ELSE -1

\* lines 78, 84: int(e.attrib.get('lower', '0')) raises ValueError
LowerRaises(e) == ~IntParses(Get(e.lower, s0))

\* lines 76-88: the tuple appended for an association with two ends
AssocTuple(elem) ==
  LET e1 == elem.ends[1]
      e2 == elem.ends[2]
  IN  [t1 |-> e1.type, n1 |-> IF Truthy(e1.name) THEN e1.name[1] ELSE sref1,
       u1 |-> ParseUpper(e1.upper),
       t2 |-> e2.type, n2 |-> IF Truthy(e2.name) THEN e2.name[1] ELSE sref2,
       u2 |-> ParseUpper(e2.upper)]

\* parse_associations raises: some two-ended association has a lower bound
\* that int() rejects
ParseAssociationsRaises(elems) ==
  \E i \in 1..Len(elems) :
     /\ Len(elems[i].ends) = 2
     /\ LowerRaises(elems[i].ends[1]) \/ LowerRaises(elems[i].ends[2])

\* parse_associations: self.associations
ParseAssociations(elems) ==
  LET two == SelectSeq(elems, LAMBDA a : Len(a.ends) = 2)
  IN  [i \in 1..Len(two) |-> AssocTuple(two[i])]

\* lines 103-104: self.class_ids.get(t); an end without a type looks up None
ClassOf(class_ids, t) ==
  IF IsAbsent(t) THEN Absent ELSE DictGet(class_ids, t[1])

\* line 105: both ends resolve to a class
Resolves(class_ids, a) ==
  Truthy(ClassOf(class_ids, a.t1)) /\ Truthy(ClassOf(class_ids, a.t2))


(***************************************************************************)
(* UML -> SQL script: UMLParser.generate_sql                               *)
(***************************************************************************)
\* line 96: " NOT NULL" unless the type carries the primary-key marker
NotNullSuffix(sql_type) ==
  IF ~Contains(sPRIMARY_KEY, Upper(sql_type)) THEN <<" ">> \o sNOT_NULL ELSE <<>>

\* line 97: one column line
AttrLine(attr) ==
  <<" ", " ">> \o BQ(attr.name) \o <<" ">> \o attr.type \o NotNullSuffix(attr.type)

\* lines 92-100: the CREATE TABLE statement of one class
CreateTable(class_name, attrs) ==
  [kind |-> "create", name |-> Some(class_name),
   defs |-> [i \in 1..Len(attrs) |-> AttrLine(attrs[i])]]

\* line 108
many_to_many(u1, u2) ==
  (u1 = -1 /\ u2 = -1) \/ (u1 = -1 /\ u2 > 1) \/ (u2 = -1 /\ u1 > 1)

\* line 109 with >= for >
one_to_many_ge(u1, u2) ==
  (u1 = 1 /\ (u2 = -1 \/ u2 >= 1)) \/ (u2 = 1 /\ (u1 = -1 \/ u1 >= 1))

\* line 109
one_to_many(u1, u2) ==
  (u1 = 1 /\ (u2 = -1 \/ u2 > 1)) \/ (u2 = 1 /\ (u1 = -1 \/ u1 > 1))

\* lines 111, 122, 136: the branch generate_sql takes
SqlBranch(u1, u2) ==
  IF many_to_many(u1, u2) THEN "many_to_many"
  ELSE IF one_to_many(u1, u2) THEN "one_to_many"
  ELSE "default"

\* lines 112-120: the join table statement
JoinTable(c1, c2) ==
  LET k1 == Lower(c1) \o s_id
      k2 == Lower(c2) \o s_id
  IN  [kind |-> "create", name |-> Some(c1 \o <<"_">> \o c2 \o s_join),
       defs |-> <<
         <<" ", " ">> \o BQ(k1) \o <<" ">> \o sINT \o <<" ">> \o sNOT_NULL,
         <<" ", " ">> \o BQ(k2) \o <<" ">> \o sINT \o <<" ">> \o sNOT_NULL,
         <<" ", " ">> \o sPRIMARY_KEY \o <<" ", "(">> \o BQ(k1) \o <<",", " ">>
            \o BQ(k2) \o <<")">>,
         <<" ", " ">> \o sFOREIGN_KEY \o <<" ", "(">> \o BQ(k1) \o <<")", " ">>
            \o sREFERENCES \o <<" ">> \o BQ(c1) \o <<"(">> \o BQ(sid) \o <<")">>,
         <<" ", " ">> \o sFOREIGN_KEY \o <<" ", "(">> \o BQ(k2) \o <<")", " ">>
            \o sREFERENCES \o <<" ">> \o BQ(c2) \o <<"(">> \o BQ(sid) \o <<")">> >>]

\* lines 125, 129, 138: f'{n}_id' if n else f'{c.lower()}_id'
FkCol(n, c) == IF Len(n) > 0 THEN n \o s_id ELSE Lower(c) \o s_id

\* lines 123-130 with the tables of the two one-to-many branches exchanged
FkPlacementSwapped(a, c1, c2) ==
  IF one_to_many(a.u1, a.u2)
  THEN IF a.u1 = 1
       THEN [fk_table |-> c1, fk_col |-> FkCol(a.n1, c1), ref_table |-> c2]
       ELSE [fk_table |-> c2, fk_col |-> FkCol(a.n2, c2), ref_table |-> c1]
  ELSE [fk_table |-> c1, fk_col |-> FkCol(a.n2, c2), ref_table |-> c2]

\* lines 123-130, 137-139: where the foreign key goes
FkPlacement(a, c1, c2) ==
  IF one_to_many(a.u1, a.u2)
  THEN IF a.u1 = 1
       THEN [fk_table |-> c2, fk_col |-> FkCol(a.n1, c1), ref_table |-> c1]
       ELSE [fk_table |-> c1, fk_col |-> FkCol(a.n2, c2), ref_table |-> c2]
  ELSE [fk_table |-> c1, fk_col |-> FkCol(a.n2, c2), ref_table |-> c2]

\* lines 132-135, 140-143: the ALTER TABLE pair
AlterPair(p) ==
  << [kind |-> "addcol", table |-> p.fk_table, col |-> p.fk_col],
     [kind |-> "addfk", table |-> p.fk_table, col |-> p.fk_col,
      ref |-> p.ref_table, refcol |-> sid] >>

\* lines 102-143: the statements generate_sql appends for one association
AssocSql(class_ids, a) ==
  IF ~Resolves(class_ids, a) THEN <<>>
  ELSE LET c1 == ClassOf(class_ids, a.t1)[1]
           c2 == ClassOf(class_ids, a.t2)[1]
       IN  IF SqlBranch(a.u1, a.u2) = "many_to_many" THEN <<JoinTable(c1, c2)>>
           ELSE AlterPair(FkPlacement(a, c1, c2))

RECURSIVE AssocsSql(_, _, _)
AssocsSql(class_ids, assocs, n) ==
  IF n = 0 THEN <<>>
  ELSE AssocsSql(class_ids, assocs, n - 1) \o AssocSql(class_ids, assocs[n])

\* generate_sql: sql_statements
GenerateSql(parsed) ==
  [i \in 1..Len(parsed.classes) |->
     CreateTable(parsed.classes[i][1], parsed.classes[i][2])]
  \o AssocsSql(parsed.class_ids, parsed.associations, Len(parsed.associations))

\* UMLParser.__init__, parse_classes, parse_associations
ParseUml(mapping, doc) ==
  LET pc == ParseClasses(mapping, doc.classes, Len(doc.classes))
  IN  [class_ids |-> pc.class_ids, classes |-> pc.classes,
       associations |-> ParseAssociations(doc.assocs)]

\* the exception a UML -> relational conversion of doc ends with, or "none"
UmlRaises(doc) ==
  IF ~doc.wf THEN "ParseError"
  ELSE IF ParseAssociationsRaises(doc.assocs) THEN "ValueError"
  ELSE "none"

\* generate_sql_from_uml_content
generate_sql_from_uml_content(mapping, doc) ==
  IF UmlRaises(doc) # "none"
  THEN [ok |-> FALSE, error |-> UmlRaises(doc), out |-> [stmts |-> <<>>]]
  ELSE [ok |-> TRUE, error |-> "none",
        out |-> [stmts |-> GenerateSql(ParseUml(mapping, doc))]]


(***************************************************************************)
(* UML -> schema markup: UMLSchemaParser.generate_sql_xml                  *)
(***************************************************************************)
\* str(b).lower()
BoolStr(b) == IF b THEN "true" ELSE "false"

\* re.sub of one pattern of line 266: every occurrence of a blank followed by
\* word (any letter case) is removed
RECURSIVE RemoveMarker(_, _)
RemoveMarker(word, s) ==
  IF Len(s) = 0 THEN s
  ELSE IF /\ s[1] = " "
          /\ Len(s) >= Len(word) + 1
          /\ Upper(SubSeq(s, 2, Len(word) + 1)) = word
       THEN RemoveMarker(word, SubSeq(s, Len(word) + 2, Len(s)))
       ELSE <<s[1]>> \o RemoveMarker(word, Tail(s))

\* lines 264-273: the column element of one attribute
ColumnElem(attr) ==
  LET is_primary == Contains(sPRIMARY_KEY, Upper(attr.type))
      is_nullable == ~Contains(sNOT_NULL, Upper(attr.type)) /\ ~is_primary
  IN  [name |-> Some(attr.name),
       type |-> Some(RemoveMarker(sNOT_NULL, RemoveMarker(sPRIMARY_KEY, attr.type))),
       primaryKey |-> BoolStr(is_primary),
       nullable |-> BoolStr(is_nullable)]

\* lines 260-273: the table element of one class
TableElem(class_name, attrs) ==
  [name |-> Some(class_name),
   columns |-> [i \in 1..Len(attrs) |-> ColumnElem(attrs[i])],
   fks |-> <<>>]

ForeignKeyElem(target, local) ==
  [targetTable |-> Some(target),
   refs |-> <<[localColumn |-> Some(local), foreignColumn |-> Some(sid)]>>]

\* line 282
many_to_many_xml(u1, u2) ==
  (u1 = -1 /\ u2 = -1) \/ (u1 = -1 /\ u2 > 1) \/ (u2 = -1 /\ u1 > 1)

\* line 283
one_to_many_xml(u1, u2) ==
  (u1 = 1 /\ (u2 = -1 \/ u2 > 1)) \/ (u2 = 1 /\ (u1 = -1 \/ u1 > 1))

\* lines 285, 322, 324, 333: the branch generate_sql_xml takes
XmlBranch(u1, u2) ==
  IF many_to_many_xml(u1, u2) THEN "many_to_many"
  ELSE IF one_to_many_xml(u1, u2) THEN "one_to_many"
  ELSE "default"

\* lines 287-320 without lower() on the column names
JoinTableElemNoLower(c1, c2) ==
  LET col1_name == c1 \o s_id
      col2_name == c2 \o s_id
      col(n) == [name |-> Some(n), type |-> Some(sINT),
                 primaryKey |-> "true", nullable |-> "false"]
  IN  [name |-> Some(c1 \o <<"_">> \o c2 \o s_join),
       columns |-> <<col(col1_name), col(col2_name)>>,
       fks |-> <<ForeignKeyElem(c1, col1_name), ForeignKeyElem(c2, col2_name)>>]

\* lines 287-320: the join table element
JoinTableElem(c1, c2) ==
  LET col1_name == Lower(c1) \o s_id
      col2_name == Lower(c2) \o s_id
      col(n) == [name |-> Some(n), type |-> Some(sINT),
                 primaryKey |-> "true", nullable |-> "false"]
  IN  [name |-> Some(c1 \o <<"_">> \o c2 \o s_join),
       columns |-> <<col(col1_name), col(col2_name)>>,
       fks |-> <<ForeignKeyElem(c1, col1_name), ForeignKeyElem(c2, col2_name)>>]

\* lines 324-336: where the foreign key goes
FkPlacementXml(a, c1, c2) ==
  IF one_to_many_xml(a.u1, a.u2)
  THEN IF a.u1 = 1
       THEN [fk_table |-> c2, fk_col |-> FkCol(a.n1, c1), ref_table |-> c1]
       ELSE [fk_table |-> c1, fk_col |-> FkCol(a.n2, c2), ref_table |-> c2]
  ELSE [fk_table |-> c1, fk_col |-> FkCol(a.n2, c2), ref_table |-> c2]

\* lines 339-355: the column and the foreign key go to the first table
\* element named fk_table, if there is one
AddForeignKey(tables, p) ==
  IF \E i \in 1..Len(tables) : tables[i].name = Some(p.fk_table)
  THEN LET k == CHOOSE i \in 1..Len(tables) :
                  /\ tables[i].name = Some(p.fk_table)
                  /\ \A j \in 1..(i - 1) : tables[j].name # Some(p.fk_table)
       IN  [tables EXCEPT
              ![k].columns = Append(@, [name |-> Some(p.fk_col), type |-> Some(sINT),
                                        primaryKey |-> "false", nullable |-> "true"]),
              ![k].fks = Append(@, ForeignKeyElem(p.ref_table, p.fk_col))]
  ELSE tables

\* lines 276-355: what one association does to the table elements
AssocXml(class_ids, tables, a) ==
  IF ~Resolves(class_ids, a) THEN tables
  ELSE LET c1 == ClassOf(class_ids, a.t1)[1]
           c2 == ClassOf(class_ids, a.t2)[1]
       IN  IF XmlBranch(a.u1, a.u2) = "many_to_many"
           THEN Append(tables, JoinTableElem(c1, c2))
           ELSE AddForeignKey(tables, FkPlacementXml(a, c1, c2))

RECURSIVE AssocsXml(_, _, _, _)
AssocsXml(class_ids, tables, assocs, n) ==
  IF n = 0 THEN tables
  ELSE AssocXml(class_ids, AssocsXml(class_ids, tables, assocs, n - 1), assocs[n])

\* generate_sql_xml: the database element
GenerateSqlXml(parsed) ==
  [wf |-> TRUE,
   tables |-> AssocsXml(parsed.class_ids,
                        [i \in 1..Len(parsed.classes) |->
                           TableElem(parsed.classes[i][1], parsed.classes[i][2])],
                        parsed.associations, Len(parsed.associations))]

EmptyXml == [wf |-> TRUE, tables |-> <<>>]

\* generate_sql_xml_from_uml_content
generate_sql_xml_from_uml_content(mapping, doc) ==
  IF UmlRaises(doc) # "none"
  THEN [ok |-> FALSE, error |-> UmlRaises(doc), out |-> EmptyXml]
  ELSE [ok |-> TRUE, error |-> "none", out |-> GenerateSqlXml(ParseUml(mapping, doc))]


(***************************************************************************)
(* SQL script -> UML: generate_uml_from_sql                                *)
(***************************************************************************)
\* lines 197-208: the attribute type of an upper-cased column type
UmlTypeOfSql(col_type) ==
  IF Contains(sINT, col_type) THEN sInteger
  ELSE IF Contains(sCHAR, col_type) \/ Contains(sTEXT, col_type)
          \/ Contains(sVARCHAR, col_type) THEN sString
  ELSE IF Contains(sFLOAT, col_type) \/ Contains(sDOUBLE, col_type)
          \/ Contains(sREAL, col_type) THEN sFloat
  ELSE IF Contains(sBOOLEAN, col_type) THEN sBoolean
  ELSE IF Contains(sDATE, col_type) THEN sDate
  ELSE sString

\* lines 193-194: the parts of a column definition that becomes an attribute
DefParts(col_def) == Split(Strip(col_def, {" "}))

DefIsColumn(col_def) ==
  LET parts == DefParts(col_def)
  IN  Len(parts) >= 2 /\ Upper(parts[1]) # sFOREIGN

\* lines 195-214: the ownedAttribute of a column definition
AttrOfDef(col_def) ==
  LET parts == DefParts(col_def)
  IN  [name |-> Some(Strip(parts[1], {Backtick})),
       type |-> Some(UmlTypeOfSql(Upper(parts[2])))]

\* lines 178-214: the class element of a CREATE TABLE statement
ClassOfCreate(stmt) ==
  LET table_name == Strip(stmt.name[1], {Backtick})
      cols == SelectSeq(stmt.defs, DefIsColumn)
  IN  [id |-> Some(sid_ \o table_name), name |-> Some(table_name),
       attrs |-> [i \in 1..Len(cols) |-> AttrOfDef(cols[i])]]

\* line 178: get_name() gives no name, and .strip raises AttributeError
CreateRaises(stmt) == stmt.kind = "create" /\ IsAbsent(stmt.name)

IsCreate(stmt) == stmt.kind = "create"

\* lines 168-214: the class elements, in statement order
SqlClasses(stmts) ==
  LET creates == SelectSeq(stmts, IsCreate)
  IN  [i \in 1..Len(creates) |-> ClassOfCreate(creates[i])]

\* lines 165, 180: class_map after the first pass
RECURSIVE SqlClassMap(_, _)
SqlClassMap(stmts, n) ==
  IF n = 0 THEN <<>>
  ELSE LET m == SqlClassMap(stmts, n - 1)
       IN  IF IsCreate(stmts[n])
           THEN LET table_name == Strip(stmts[n].name[1], {Backtick})
                IN  DictPut(m, table_name, sid_ \o table_name)
           ELSE m

\* \w+ of the pattern of line 221
IsWord(s) ==
  /\ Len(s) > 0
  /\ \A i \in 1..Len(s) :
       \/ IsDigitChar(s[i])
       \/ s[i] = "_"
       \/ s[i] \in UpperSet \cup LowerSet

\* lines 219-224: the statement yields an association
FkRecognized(class_map, stmt) ==
  /\ stmt.kind = "addfk"
  /\ IsWord(stmt.table) /\ IsWord(stmt.col) /\ IsWord(stmt.ref) /\ IsWord(stmt.refcol)
  /\ HasKey(class_map, stmt.table)
  /\ HasKey(class_map, stmt.ref)

\* lines 227-246: the association element of a recognized foreign key
AssocOfFk(class_map, stmt) ==
  [ends |-> <<
     [type |-> DictGet(class_map, stmt.ref), name |-> Some(Lower(stmt.ref)),
      lower |-> Some(s1), upper |-> Some(s1)],
     [type |-> DictGet(class_map, stmt.table), name |-> Some(Lower(stmt.table)),
      lower |-> Some(s0), upper |-> Some(sMinus1)] >>]

\* lines 216-246: the association elements
SqlAssocs(stmts) ==
  LET class_map == SqlClassMap(stmts, Len(stmts))
      fks == SelectSeq(stmts, LAMBDA st : FkRecognized(class_map, st))
  IN  [i \in 1..Len(fks) |-> AssocOfFk(class_map, fks[i])]

EmptyUml == [wf |-> TRUE, classes |-> <<>>, assocs |-> <<>>]

\* generate_uml_from_sql
generate_uml_from_sql(script) ==
  IF \E i \in 1..Len(script.stmts) : CreateRaises(script.stmts[i])
  THEN [ok |-> FALSE, error |-> "AttributeError", out |-> EmptyUml]
  ELSE [ok |-> TRUE, error |-> "none",
        out |-> [wf |-> TRUE, classes |-> SqlClasses(script.stmts),
                 assocs |-> SqlAssocs(script.stmts)]]

(***************************************************************************)
(* Schema markup -> UML: generate_uml_from_sql_xml                         *)
(***************************************************************************)
\* lines 406-417: the attribute type of a column type
UmlTypeOfXml(col_type) ==
  IF Contains(sINT, col_type) \/ Contains(sBIGINT, col_type) THEN sInteger
  ELSE IF Contains(sCHAR, col_type) \/ Contains(sTEXT, col_type)
          \/ Contains(sVARCHAR, col_type) THEN sString
  ELSE IF Contains(sFLOAT, col_type) \/ Contains(sDOUBLE, col_type)
          \/ Contains(sREAL, col_type) THEN sFloat
  ELSE IF Contains(sBOOLEAN, col_type) THEN sBoolean
  ELSE IF Contains(sDATE, col_type) THEN sDate
  ELSE sString

\* lines 389-423: the class element of the k-th table element
ClassOfTable(table, k) ==
  [id |-> Some(sclass_ \o NatToStr(k)), name |-> table.name,
   attrs |-> [i \in 1..Len(table.columns) |->
                [name |-> table.columns[i].name,
                 type |-> Some(UmlTypeOfXml(table.columns[i].type[1]))]]]

\* lines 382, 391: class_map, keyed by the name attribute (an option)
RECURSIVE XmlClassMap(_, _)
XmlClassMap(tables, n) ==
  IF n = 0 THEN <<>>
  ELSE DictPut(XmlClassMap(tables, n - 1), tables[n].name, sclass_ \o NatToStr(n))

\* lines 428-435: the foreignKey element yields an association element
FkKnown(class_map, table, fk) ==
  HasKey(class_map, table.name) /\ HasKey(class_map, fk.targetTable)

\* lines 437-465: the association element of a foreignKey element; without a
\* reference child it keeps no ends
AssocOfFkElem(class_map, table, fk) ==
  IF Len(fk.refs) = 0 THEN [ends |-> <<>>]
  ELSE [ends |-> <<
          [type |-> DictGet(class_map, fk.targetTable),
           name |-> Some(Lower(fk.targetTable[1]) \o s_ref),
           lower |-> Some(s1), upper |-> Some(s1)],
          [type |-> DictGet(class_map, table.name),
           name |-> Some(Lower(table.name[1]) \o s_ref),
           lower |-> Some(s0), upper |-> Some(sMinus1)] >>]

\* lines 430-465: the association elements of one table element
TableAssocs(class_map, table) ==
  LET fks == SelectSeq(table.fks, LAMBDA fk : FkKnown(class_map, table, fk))
  IN  [i \in 1..Len(fks) |-> AssocOfFkElem(class_map, table, fks[i])]

RECURSIVE XmlAssocs(_, _, _)
XmlAssocs(class_map, tables, n) ==
  IF n = 0 THEN <<>>
  ELSE XmlAssocs(class_map, tables, n - 1) \o TableAssocs(class_map, tables[n])

\* the exception generate_uml_from_sql_xml ends with, or "none": a column
\* without type fails the membership test of line 406; a None name cannot be
\* serialized (line 468), and line 454 lower-cases the target table name
XmlRaises(doc) ==
  IF ~doc.wf THEN "ParseError"
  ELSE IF \E i \in 1..Len(doc.tables) :
             \/ IsAbsent(doc.tables[i].name)
             \/ \E j \in 1..Len(doc.tables[i].columns) :
                   \/ IsAbsent(doc.tables[i].columns[j].type)
                   \/ IsAbsent(doc.tables[i].columns[j].name)
       THEN "TypeError"
  ELSE "none"

\* generate_uml_from_sql_xml
generate_uml_from_sql_xml(doc) ==
  IF XmlRaises(doc) # "none"
  THEN [ok |-> FALSE, error |-> XmlRaises(doc), out |-> EmptyUml]
  ELSE LET class_map == XmlClassMap(doc.tables, Len(doc.tables))
       IN  [ok |-> TRUE, error |-> "none",
            out |-> [wf |-> TRUE,
                     classes |-> [k \in 1..Len(doc.tables) |->
                                    ClassOfTable(doc.tables[k], k)],
                     assocs |-> XmlAssocs(class_map, doc.tables, Len(doc.tables))]]


(***************************************************************************)
(* Input texts the model draws from.                                       *)
(***************************************************************************)
sA == <<"A">>

sB == <<"B">>

sr == <<"r">>

sn == <<"n">>

sID == <<"I","D">>

sx == <<"x">>

sint == <<"i","n","t">>

sXyz == <<"X","y","z">>

\* raw upper attributes: absent, the digit strings 0..MaxUpper, "*" and "-1"
UpperRaws ==
  {Absent, Some(<<"*">>), Some(sMinus1)} \cup {Some(NatToStr(n)) : n \in 0..MaxUpper}

RoleNames == {Absent, Some(<<>>), Some(sr)}

\* sequences over S of length at most n
SeqsUpTo(S, n) == UNION {[1..k -> S] : k \in 0..n}

End(t, n, l, u) == [type |-> t, name |-> n, lower |-> l, upper |-> u]

Class(i, n, attrs) == [id |-> i, name |-> n, attrs |-> attrs]

Uml(classes, assocs) == [wf |-> TRUE, classes |-> classes, assocs |-> assocs]

TwoClasses == <<Class(Some(s1), Some(sA), <<>>), Class(Some(<<"2">>), Some(sB), <<>>)>>

\* one association between two plain classes: every pair of upper bounds,
\* ends of the same class, an end of no known class
AssocTypeDocs ==
  {Uml(TwoClasses, <<[ends |-> <<End(Some(t1), Absent, Absent, u1),
                                End(Some(t2), Absent, Absent, u2)>>]>>) :
     t1 \in {s1, <<"2">>, <<"9">>}, t2 \in {s1, <<"2">>},
     u1 \in UpperRaws, u2 \in UpperRaws}

\* one association between two plain classes: every pair of role names
AssocNameDocs ==
  {Uml(TwoClasses, <<[ends |-> <<End(Some(s1), n1, Absent, u1),
                                End(Some(<<"2">>), n2, Absent, u2)>>]>>) :
     n1 \in RoleNames, n2 \in RoleNames,
     u1 \in {Absent, Some(s0), Some(<<"*">>)}, u2 \in {Absent, Some(s0), Some(<<"*">>)}}

AttrChoices ==
  {[name |-> n, type |-> t] :
     n \in {Absent, Some(sid), Some(sID), Some(sn)},
     t \in {Absent, Some(sInteger)}}

\* one class with every sequence of at most MaxAttrs attributes
AttrDocs ==
  {Uml(<<Class(Some(s1), Some(sA), attrs)>>, <<>>) : attrs \in SeqsUpTo(AttrChoices, MaxAttrs)}

FewAttrs ==
  {<<>>, <<[name |-> Some(sid), type |-> Some(sString)]>>,
   <<[name |-> Some(sn), type |-> Some(sXyz)]>>}

\* two classes: equal names, equal identifiers, a missing identifier or name
ClassDocs ==
  {Uml(<<Class(Some(s1), Some(sA), a1), Class(i2, n2, a2)>>, <<>>) :
     a1 \in FewAttrs, a2 \in FewAttrs,
     i2 \in {Absent, Some(s1), Some(<<"2">>)}, n2 \in {Absent, Some(sA), Some(sB)}}

FewAssocs ==
  {[ends |-> <<End(Some(t1), Absent, Absent, u1), End(Some(t2), Some(sr), Absent, u2)>>] :
     t1 \in {s1, <<"2">>}, t2 \in {s1, <<"2">>},
     u1 \in {Some(s1), Some(<<"*">>)}, u2 \in {Some(s1), Some(<<"*">>)}}

\* two classes and two associations
TwoAssocDocs ==
  {Uml(<<Class(Some(s1), Some(sA), <<[name |-> Some(sID), type |-> Some(sLong)]>>),
         Class(Some(<<"2">>), Some(sB), <<>>)>>, <<x, y>>) :
     x \in FewAssocs, y \in FewAssocs}

\* associations with other than two ends, lower bounds that are no integers
OddAssocDocs ==
  {Uml(TwoClasses, <<[ends |-> ends]>>) :
     ends \in {<<End(Some(s1), Absent, l, Some(s1))>> : l \in {Absent, Some(sx)}}
         \cup {<<End(Some(s1), Absent, l1, Some(s1)),
                 End(Some(<<"2">>), Absent, l2, Some(<<"*">>))>> :
                  l1 \in {Absent, Some(s0), Some(sMinus1), Some(sx), Some(<<>>)},
                  l2 \in {Absent, Some(sx)}}
         \cup {<<End(Some(s1), Absent, Absent, Some(s1)),
                 End(Some(<<"2">>), Absent, Absent, Some(s1)),
                 End(Some(s1), Absent, l, Some(s1))>> : l \in {Absent, Some(sx)}}}

\* text that is not well-formed XML
MalformedUml == [wf |-> FALSE, classes |-> <<>>, assocs |-> <<>>]

MalformedXml == [wf |-> FALSE, tables |-> <<>>]

UmlInputs ==
  AssocTypeDocs \cup AssocNameDocs \cup AttrDocs \cup ClassDocs \cup TwoAssocDocs
  \cup OddAssocDocs \cup {MalformedUml}

\* SQL scripts given as input
StmtChoices ==
  { [kind |-> "create", name |-> Some(sA),
     defs |-> << BQ(sid) \o <<" ">> \o sINT \o <<" ">> \o sPRIMARY_KEY,
                 BQ(sn) \o <<" ">> \o sVARCHAR255 >>],
    [kind |-> "create", name |-> Some(sB),
     defs |-> << sn \o <<" ">> \o sint, sx >>],
    [kind |-> "create", name |-> Absent, defs |-> <<>>],
    [kind |-> "addfk", table |-> sB, col |-> sn, ref |-> sA, refcol |-> sid],
    [kind |-> "addcol", table |-> sB, col |-> sn],
    [kind |-> "other"] }

SqlInputs == {[stmts |-> st] : st \in SeqsUpTo(StmtChoices, 2)}

\* schema markup given as input
XmlInputs ==
  {MalformedXml} \cup
  {[wf |-> TRUE,
    tables |-> <<[name |-> Some(sA),
                  columns |-> <<[name |-> Some(sid), type |-> Some(sINT),
                                 primaryKey |-> "true", nullable |-> "false"]>>,
                  fks |-> <<>>],
                 [name |-> tn, columns |-> <<[name |-> cn, type |-> ct,
                                              primaryKey |-> "false", nullable |-> "true"]>>,
                  fks |-> fks]>>] :
     tn \in {Absent, Some(sB)}, cn \in {Absent, Some(sn)},
     ct \in {Absent, Some(sINT), Some(sint)},
     fks \in {<<>>, <<[targetTable |-> Some(sA), refs |-> <<>>]>>,
              <<ForeignKeyElem(sA, sn)>>, <<ForeignKeyElem(sx, sn)>>,
              <<[targetTable |-> Absent, refs |-> <<>>]>>}}

(***************************************************************************)
(* The state: the text in each of the three formats (an option: absent     *)
(* while the pane is blank), the last conversion and how it ended, and the *)
(* module-level TYPE_MAPPING.  A conversion that returns puts its output   *)
(* in the pane of its format, from where the next conversion can read it.  *)
(***************************************************************************)
VARIABLES uml, sql, xml, last, outcome, produced, steps, TYPE_MAPPING

vars == <<uml, sql, xml, last, outcome, produced, steps, TYPE_MAPPING>>

Init ==
  /\ \/ uml \in {Some(d) : d \in UmlInputs} /\ sql = Absent /\ xml = Absent
     \/ uml = Absent /\ sql \in {Some(d) : d \in SqlInputs} /\ xml = Absent
     \/ uml = Absent /\ sql = Absent /\ xml \in {Some(d) : d \in XmlInputs}
  /\ last = "none"
  /\ outcome = "none"
  /\ produced = {}
  /\ steps = 0
  /\ TYPE_MAPPING = TypeMappingTable

\* the attribute type names of a document that the table does not hold
UnknownTypes(doc) ==
  {doc.classes[i].attrs[j].type[1] :
     <<i, j>> \in {<<i, j>> \in (1..Len(doc.classes)) \X (1..MaxAttrs) :
                     /\ j <= Len(doc.classes[i].attrs)
                     /\ Truthy(doc.classes[i].attrs[j].type)
                     /\ doc.classes[i].attrs[j].type[1] \notin DOMAIN TYPE_MAPPING}}

\* a handler of tab 1 that would register the unknown type names it meets in
\* the module-level table
ConvertUmlToSqlRegistering ==
  /\ steps < MaxSteps
  /\ ~IsAbsent(uml)
  /\ LET r == generate_sql_from_uml_content(TYPE_MAPPING, uml[1])
     IN  /\ outcome' = r.error
         /\ sql' = IF r.ok THEN Some(r.out) ELSE sql
         /\ produced' = IF r.ok THEN produced \cup {"sql"} ELSE produced
  /\ last' = "uml2sql"
  /\ steps' = steps + 1
  /\ TYPE_MAPPING' = [t \in DOMAIN TYPE_MAPPING \cup UnknownTypes(uml[1]) |->
                        IF t \in DOMAIN TYPE_MAPPING THEN TYPE_MAPPING[t] ELSE sTEXT]
  /\ UNCHANGED <<uml, xml>>

\* lines 595-604: the button handler of tab 1
ConvertUmlToSql ==
  /\ steps < MaxSteps
  /\ ~IsAbsent(uml)
  /\ LET r == generate_sql_from_uml_content(TYPE_MAPPING, uml[1])
     IN  /\ outcome' = r.error
         /\ sql' = IF r.ok THEN Some(r.out) ELSE sql
         /\ produced' = IF r.ok THEN produced \cup {"sql"} ELSE produced
  /\ last' = "uml2sql"
  /\ steps' = steps + 1
  /\ UNCHANGED <<uml, xml, TYPE_MAPPING>>

\* lines 617-626: the button handler of tab 2
ConvertSqlToUml ==
  /\ steps < MaxSteps
  /\ ~IsAbsent(sql)
  /\ LET r == generate_uml_from_sql(sql[1])
     IN  /\ outcome' = r.error
         /\ uml' = IF r.ok THEN Some(r.out) ELSE uml
         /\ produced' = IF r.ok THEN produced \cup {"uml"} ELSE produced
  /\ last' = "sql2uml"
  /\ steps' = steps + 1
  /\ UNCHANGED <<sql, xml, TYPE_MAPPING>>

\* lines 639-648: the button handler of tab 3
ConvertUmlToXml ==
  /\ steps < MaxSteps
  /\ ~IsAbsent(uml)
  /\ LET r == generate_sql_xml_from_uml_content(TYPE_MAPPING, uml[1])
     IN  /\ outcome' = r.error
         /\ xml' = IF r.ok THEN Some(r.out) ELSE xml
         /\ produced' = IF r.ok THEN produced \cup {"xml"} ELSE produced
  /\ last' = "uml2xml"
  /\ steps' = steps + 1
  /\ UNCHANGED <<uml, sql, TYPE_MAPPING>>

\* lines 661-670: the button handler of tab 4
ConvertXmlToUml ==
  /\ steps < MaxSteps
  /\ ~IsAbsent(xml)
  /\ LET r == generate_uml_from_sql_xml(xml[1])
     IN  /\ outcome' = r.error
         /\ uml' = IF r.ok THEN Some(r.out) ELSE uml
         /\ produced' = IF r.ok THEN produced \cup {"uml"} ELSE produced
  /\ last' = "xml2uml"
  /\ steps' = steps + 1
  /\ UNCHANGED <<sql, xml, TYPE_MAPPING>>

Next ==
  \/ ConvertUmlToSql
  \/ ConvertSqlToUml
  \/ ConvertUmlToXml
  \/ ConvertXmlToUml

Spec == Init /\ [][Next]_vars


(***************************************************************************)
(* Reading the outputs: what a SQL script and a schema markup document     *)
(* say, used to state the properties below.                                *)
(***************************************************************************)
Words(def) == Split(def)

\* how often sub occurs in s
Occurrences(sub, s) ==
  Cardinality({k \in 1..(Len(s) - Len(sub) + 1) : SubSeq(s, k, k + Len(sub) - 1) = sub})

IsPkClause(def) ==
  Len(Words(def)) >= 2 /\ Words(def)[1] = <<"P","R","I","M","A","R","Y">>
                       /\ Words(def)[2] = <<"K","E","Y">>

IsFkClause(def) == Len(Words(def)) >= 1 /\ Words(def)[1] = sFOREIGN

IsColumnDef(def) == Len(Words(def)) >= 1 /\ ~IsPkClause(def) /\ ~IsFkClause(def)

Unquote(w) == Strip(w, {Backtick, "(", ")", ","})

\* the column definitions of a CREATE TABLE statement: [name, type, pk, notnull]
StmtColumns(stmt) ==
  LET cols == SelectSeq(stmt.defs, IsColumnDef)
  IN  [i \in 1..Len(cols) |->
         [name |-> Unquote(Words(cols[i])[1]),
          type |-> IF Len(Words(cols[i])) >= 2 THEN Words(cols[i])[2] ELSE <<>>,
          pk |-> Contains(sPRIMARY_KEY, cols[i]),
          markers |-> Occurrences(sPRIMARY_KEY, cols[i]),
          notnull |-> Contains(sNOT_NULL, cols[i])]]

\* the columns of the PRIMARY KEY clauses of a CREATE TABLE statement
StmtPkClauses(stmt) ==
  LET cl == SelectSeq(stmt.defs, IsPkClause)
  IN  [i \in 1..Len(cl) |->
         LET w == Words(cl[i]) IN [k \in 1..(Len(w) - 2) |-> Unquote(w[k + 2])]]

\* the FOREIGN KEY clauses of a CREATE TABLE statement: [col, ref, refcol]
StmtFkClauses(stmt) ==
  LET cl == SelectSeq(stmt.defs, IsFkClause)
  IN  [i \in 1..Len(cl) |->
         LET w == Words(cl[i])
             target == SplitFrom(w[5], {"(", ")"}, 1, <<>>, <<>>)
         IN  [col |-> Unquote(w[3]), ref |-> Unquote(target[1]),
              refcol |-> Unquote(target[2])]]

Names(cols) == [i \in 1..Len(cols) |-> cols[i].name]

Range(f) == {f[i] : i \in DOMAIN f}

Creates(script) == SelectSeq(script.stmts, IsCreate)

AddCols(script) == SelectSeq(script.stmts, LAMBDA st : st.kind = "addcol")

AddFks(script) == SelectSeq(script.stmts, LAMBDA st : st.kind = "addfk")

(***************************************************************************)
(* The input of the UML -> relational conversions, as the claims see it.   *)
(***************************************************************************)
UmlReadable == ~IsAbsent(uml) /\ UmlRaises(uml[1]) = "none"

Parsed == ParseUml(TYPE_MAPPING, uml[1])

Unbounded(u) == u = -1

\* section 4.3 of the specification
ClaimManyToMany(u1, u2) ==
  \/ Unbounded(u1) /\ Unbounded(u2)
  \/ Unbounded(u1) /\ u2 > 1
  \/ Unbounded(u2) /\ u1 > 1

ClaimOneToMany(u1, u2) ==
  \/ u1 = 1 /\ (Unbounded(u2) \/ u2 > 1)
  \/ u2 = 1 /\ (Unbounded(u1) \/ u1 > 1)

ClaimClass(u1, u2) ==
  IF ClaimManyToMany(u1, u2) THEN "many_to_many"
  ELSE IF ClaimOneToMany(u1, u2) THEN "one_to_many"
  ELSE "default"

SqlDone == last = "uml2sql" /\ outcome = "none"

XmlDone == last = "uml2xml" /\ outcome = "none"

\* the associations whose two ends resolve to known classes, with the classes
\* and the role names as the document declares them
Resolved ==
  LET two == SelectSeq(uml[1].assocs, LAMBDA e : Len(e.ends) = 2)
      idx == SelectSeq([i \in 1..Len(Parsed.associations) |-> i],
                       LAMBDA i : Resolves(Parsed.class_ids, Parsed.associations[i]))
  IN  [k \in 1..Len(idx) |->
         LET a == Parsed.associations[idx[k]] IN
         [u1 |-> a.u1, u2 |-> a.u2,
          role1 |-> two[idx[k]].ends[1].name, role2 |-> two[idx[k]].ends[2].name,
          c1 |-> ClassOf(Parsed.class_ids, a.t1)[1],
          c2 |-> ClassOf(Parsed.class_ids, a.t2)[1]]]

ResolvedJoin == SelectSeq(Resolved, LAMBDA a : ClaimManyToMany(a.u1, a.u2))

ResolvedKey == SelectSeq(Resolved, LAMBDA a : ~ClaimManyToMany(a.u1, a.u2))

\* C1: every pair of parsed upper bounds is a natural number or -1 and falls
\* in exactly one of many-to-many, one-to-many and default, as section 4.3
\* defines them, and generate_sql and generate_sql_xml take the branch of that
\* class for it.
C1_Classification ==
  UmlReadable =>
    \A i \in 1..Len(Parsed.associations) :
      LET u1 == Parsed.associations[i].u1
          u2 == Parsed.associations[i].u2
      IN  /\ u1 \in Nat \cup {-1} /\ u2 \in Nat \cup {-1}
          /\ ~(ClaimManyToMany(u1, u2) /\ ClaimOneToMany(u1, u2))
          /\ SqlBranch(u1, u2) = ClaimClass(u1, u2)
          /\ XmlBranch(u1, u2) = ClaimClass(u1, u2)
          /\ many_to_many(u1, u2) = ClaimManyToMany(u1, u2)
          /\ one_to_many(u1, u2) = ClaimOneToMany(u1, u2)
          /\ many_to_many_xml(u1, u2) = ClaimManyToMany(u1, u2)
          /\ one_to_many_xml(u1, u2) = ClaimOneToMany(u1, u2)

\* a script was generated from an association with an unbounded end and an end
\* with upper bound 2, and holds a join table for it
C1_Witness ==
  /\ SqlDone /\ UmlReadable
  /\ Len(Resolved) = 1 /\ Resolved[1].u1 = -1 /\ Resolved[1].u2 = 2
  /\ Len(Creates(sql[1])) = Len(Parsed.classes) + 1


\* the class on the end whose upper bound is not 1 (end 1's class in the
\* default bucket) and the class on the other end
ClaimReceiver(a) ==
  IF ClaimOneToMany(a.u1, a.u2) THEN (IF a.u1 # 1 THEN a.c1 ELSE a.c2) ELSE a.c1

ClaimReferenced(a) ==
  IF ClaimOneToMany(a.u1, a.u2) THEN (IF a.u1 = 1 THEN a.c1 ELSE a.c2) ELSE a.c2

\* the position of the table of class name c among the class tables
TableIndex(c) == CHOOSE t \in 1..Len(Parsed.classes) : Parsed.classes[t][1] = c

\* C2: every association whose ends resolve to classes and that is not
\* many-to-many adds exactly one column and one foreign key; in the
\* one-to-many case both go to the table of the end whose upper bound is not
\* 1 and the key references id of the table of the end whose upper bound is
\* 1; in the default bucket they go to end 1's table and reference end 2's.
\* This holds of the SQL script and of the schema markup.
C2_KeyPlacement ==
  /\ (SqlDone /\ UmlReadable) =>
       LET cols == AddCols(sql[1])
           fks == AddFks(sql[1])
       IN  /\ Len(cols) = Len(ResolvedKey)
           /\ Len(fks) = Len(ResolvedKey)
           /\ \A k \in 1..Len(ResolvedKey) :
                /\ cols[k].table = ClaimReceiver(ResolvedKey[k])
                /\ fks[k].table = ClaimReceiver(ResolvedKey[k])
                /\ fks[k].col = cols[k].col
                /\ fks[k].ref = ClaimReferenced(ResolvedKey[k])
                /\ fks[k].refcol = sid
  /\ (XmlDone /\ UmlReadable) =>
       \A t \in 1..Len(Parsed.classes) :
         LET mine == SelectSeq(ResolvedKey,
                       LAMBDA a : ClaimReceiver(a) = Parsed.classes[t][1])
             tab == xml[1].tables[t]
             own == Len(Parsed.classes[t][2])
         IN  /\ tab.name = Some(Parsed.classes[t][1])
             /\ Len(tab.fks) = Len(mine)
             /\ Len(tab.columns) = own + Len(mine)
             /\ \A k \in 1..Len(mine) :
                  /\ tab.fks[k].targetTable = Some(ClaimReferenced(mine[k]))
                  /\ tab.fks[k].refs =
                       <<[localColumn |-> tab.columns[own + k].name,
                          foreignColumn |-> Some(sid)]>>
                  /\ tab.columns[own + k].primaryKey = "false"

\* a script was generated from an association between two classes whose end 1
\* has upper bound 1 and whose end 2 is unbounded
C2_Witness ==
  /\ SqlDone /\ UmlReadable
  /\ Len(ResolvedKey) = 1
  /\ ResolvedKey[1].u1 = 1 /\ ResolvedKey[1].u2 = -1
  /\ ResolvedKey[1].c1 # ResolvedKey[1].c2
  /\ Len(AddFks(sql[1])) = 1

JoinName(a) == a.c1 \o <<"_">> \o a.c2 \o s_join

JoinKey1(a) == Lower(a.c1) \o s_id

JoinKey2(a) == Lower(a.c2) \o s_id

\* C3: every association whose ends resolve to classes and whose upper
\* bounds are both unbounded has exactly one join table in the output, named
\* {class1}_{class2}_join, with exactly the two columns {class1 lower}_id and
\* {class2 lower}_id, a primary key over the two, and two foreign keys, one
\* to id of each class; also when both ends are of the same class.
C3_JoinTable ==
  /\ (SqlDone /\ UmlReadable) =>
       LET all == Creates(sql[1])
           joins == SubSeq(all, Len(Parsed.classes) + 1, Len(all))
       IN  /\ Len(joins) = Len(ResolvedJoin)
           /\ \A k \in 1..Len(ResolvedJoin) :
                LET a == ResolvedJoin[k] IN
                (Unbounded(a.u1) /\ Unbounded(a.u2)) =>
                  /\ joins[k].name = Some(JoinName(a))
                  /\ Names(StmtColumns(joins[k])) = <<JoinKey1(a), JoinKey2(a)>>
                  /\ \A c \in 1..2 : ~StmtColumns(joins[k])[c].pk
                  /\ StmtPkClauses(joins[k]) = << <<JoinKey1(a), JoinKey2(a)>> >>
                  /\ StmtFkClauses(joins[k]) =
                       << [col |-> JoinKey1(a), ref |-> a.c1, refcol |-> sid],
                          [col |-> JoinKey2(a), ref |-> a.c2, refcol |-> sid] >>
  /\ (XmlDone /\ UmlReadable) =>
       LET all == xml[1].tables
           joins == SubSeq(all, Len(Parsed.classes) + 1, Len(all))
       IN  /\ Len(joins) = Len(ResolvedJoin)
           /\ \A k \in 1..Len(ResolvedJoin) :
                LET a == ResolvedJoin[k] IN
                (Unbounded(a.u1) /\ Unbounded(a.u2)) =>
                  /\ joins[k].name = Some(JoinName(a))
                  /\ Names(joins[k].columns) = <<Some(JoinKey1(a)), Some(JoinKey2(a))>>
                  /\ \A c \in 1..2 : joins[k].columns[c].primaryKey = "true"
                  /\ joins[k].fks =
                       << [targetTable |-> Some(a.c1),
                           refs |-> <<[localColumn |-> Some(JoinKey1(a)),
                                       foreignColumn |-> Some(sid)]>>],
                          [targetTable |-> Some(a.c2),
                           refs |-> <<[localColumn |-> Some(JoinKey2(a)),
                                       foreignColumn |-> Some(sid)]>>] >>

\* a script was generated from an association with both ends unbounded and
\* both ends of the same class
C3_Witness ==
  /\ SqlDone /\ UmlReadable
  /\ Len(ResolvedJoin) = 1
  /\ Unbounded(ResolvedJoin[1].u1) /\ Unbounded(ResolvedJoin[1].u2)
  /\ ResolvedJoin[1].c1 = ResolvedJoin[1].c2
  /\ Len(Creates(sql[1])) = Len(Parsed.classes) + 1

\* the names of the attributes of a class element that have a name
AttrNamesOf(elem) ==
  LET named == SelectSeq(elem.attrs, LAMBDA a : Truthy(a.name))
  IN  [i \in 1..Len(named) |-> named[i].name[1]]

\* the class elements a table is derived from: read, and not followed by a
\* read class element of the same name (line 63 keeps the later one)
TableSources ==
  {i \in 1..Len(uml[1].classes) :
     /\ ClassAccepted(uml[1].classes[i])
     /\ \A j \in (i + 1)..Len(uml[1].classes) :
          ClassAccepted(uml[1].classes[j]) =>
            uml[1].classes[j].name # uml[1].classes[i].name}

NoIdAttr(elem) == \A n \in Range(AttrNamesOf(elem)) : Lower(n) # sid

ClaimReferencedRole(a) ==
  IF ClaimOneToMany(a.u1, a.u2) /\ a.u1 = 1 THEN a.role1 ELSE a.role2

ClaimFkCol(a) ==
  IF Truthy(ClaimReferencedRole(a))
  THEN ClaimReferencedRole(a)[1] \o s_id
  ELSE Lower(ClaimReferenced(a)) \o s_id

\* C4: in the one-to-many and default cases the foreign-key column is named
\* {role name}_id after the role name of the end that refers to the referenced
\* class, and {referenced table, lower-cased}_id when that end declares no
\* role name (absent or empty).
C4_FkColumnName ==
  /\ (SqlDone /\ UmlReadable) =>
       \A k \in 1..Len(ResolvedKey) :
          /\ k <= Len(AddCols(sql[1]))
          /\ AddCols(sql[1])[k].col = ClaimFkCol(ResolvedKey[k])
  /\ (XmlDone /\ UmlReadable) =>
       \A k \in 1..Len(ResolvedKey) :
          \E t \in 1..Len(xml[1].tables) :
             /\ xml[1].tables[t].name = Some(ClaimReceiver(ResolvedKey[k]))
             /\ \E c \in 1..Len(xml[1].tables[t].columns) :
                  xml[1].tables[t].columns[c].name = Some(ClaimFkCol(ResolvedKey[k]))

HasIdAttrElem(elem) == \E n \in Range(AttrNamesOf(elem)) : Lower(n) = sid

\* C6: the table derived from a class with an attribute named id (in any
\* letter case) carries the primary-key marker exactly once on that column's
\* type and has at most one primary-key column, in the SQL script and in the
\* schema markup.
C6_SinglePrimaryKey ==
  UmlReadable =>
    \A i \in TableSources :
      LET elem == uml[1].classes[i] IN
      HasIdAttrElem(elem) =>
        /\ SqlDone =>
             LET cols == StmtColumns(Creates(sql[1])[TableIndex(elem.name[1])])
             IN  /\ Cardinality({c \in 1..Len(cols) : cols[c].pk}) <= 1
                 /\ \A c \in 1..Len(cols) :
                      Lower(cols[c].name) = sid => cols[c].markers = 1
        /\ XmlDone =>
             LET cols == xml[1].tables[TableIndex(elem.name[1])].columns
             IN  Cardinality({c \in 1..Len(cols) : cols[c].primaryKey = "true"}) <= 1

\* text that is not DDL at all
NotDdl(script) ==
  /\ Len(script.stmts) >= 1
  /\ \A i \in 1..Len(script.stmts) : script.stmts[i].kind = "other"

\* the input text of the last conversion is not well-formed in its format
LastInputMalformed ==
  \/ last \in {"uml2sql", "uml2xml"} /\ ~uml[1].wf
  \/ last = "xml2uml" /\ ~xml[1].wf
  \/ last = "sql2uml" /\ NotDdl(sql[1])

\* C7: at each of the four entry points an input that is not well-formed in
\* its source format makes the conversion fail with an error.
C7_MalformedFails == LastInputMalformed => outcome # "none"

\* C8: at each of the four entry points a well-formed input makes the
\* conversion complete and return output text, whatever fields its elements
\* lack.
C8_WellFormedCompletes ==
  (last # "none" /\ ~LastInputMalformed) => outcome = "none"

\* the column names a script gives the i-th table it creates: those of the
\* CREATE TABLE statement, then those ALTER TABLE ... ADD COLUMN adds
ScriptColumnNames(script, i) ==
  LET t == Creates(script)[i]
      added == SelectSeq(AddCols(script), LAMBDA st : Some(st.table) = t.name)
  IN  Names(StmtColumns(t)) \o [k \in 1..Len(added) |-> added[k].col]

\* C9: a class model converted to a SQL script and back has one class per
\* table of the script, with the table's name, and the attribute names of
\* each class are the column names of its table, in the same order.
C9_RoundTrip ==
  (last = "sql2uml" /\ outcome = "none" /\ "sql" \in produced) =>
    /\ Len(uml[1].classes) = Len(Creates(sql[1]))
    /\ \A i \in 1..Len(Creates(sql[1])) :
         /\ i <= Len(uml[1].classes)
         /\ uml[1].classes[i].name = Creates(sql[1])[i].name
         /\ [k \in 1..Len(uml[1].classes[i].attrs) |-> uml[1].classes[i].attrs[k].name[1]]
              = ScriptColumnNames(sql[1], i)

\* what a script says: tables, columns per table, foreign keys
SqlTableNames(script) == {Creates(script)[i].name[1] : i \in 1..Len(Creates(script))}

SqlColumnsOf(script, t) ==
  UNION {Range(ScriptColumnNames(script, i)) :
           i \in {j \in 1..Len(Creates(script)) : Creates(script)[j].name = Some(t)}}

SqlForeignKeys(script) ==
  {<<AddFks(script)[i].table, AddFks(script)[i].col, AddFks(script)[i].ref>> :
      i \in 1..Len(AddFks(script))}
  \cup UNION {{<<Creates(script)[i].name[1], fk.col, fk.ref>> :
                 fk \in Range(StmtFkClauses(Creates(script)[i]))} :
              i \in 1..Len(Creates(script))}

SameSql(r1, r2) ==
  /\ SqlTableNames(r1) = SqlTableNames(r2)
  /\ \A t \in SqlTableNames(r1) : SqlColumnsOf(r1, t) = SqlColumnsOf(r2, t)
  /\ SqlForeignKeys(r1) = SqlForeignKeys(r2)

\* what a schema markup document says
XmlTableNames(doc) == {doc.tables[i].name : i \in 1..Len(doc.tables)}

XmlColumnsOf(doc, t) ==
  UNION {Range(Names(doc.tables[i].columns)) :
           i \in {j \in 1..Len(doc.tables) : doc.tables[j].name = t}}

XmlForeignKeys(doc) ==
  UNION {{<<doc.tables[i].name, fk.refs, fk.targetTable>> : fk \in Range(doc.tables[i].fks)} :
           i \in 1..Len(doc.tables)}

SameXml(r1, r2) ==
  /\ XmlTableNames(r1) = XmlTableNames(r2)
  /\ \A t \in XmlTableNames(r1) : XmlColumnsOf(r1, t) = XmlColumnsOf(r2, t)
  /\ XmlForeignKeys(r1) = XmlForeignKeys(r2)

\* C10: a relational output converted to a class model and back to the same
\* format has the same tables, the same column names per table and the same
\* foreign keys, at every round trip.
C10_Stable ==
  [][ /\ (/\ last = "sql2uml" /\ outcome = "none" /\ "sql" \in produced
          /\ last' = "uml2sql" /\ outcome' = "none")
         => SameSql(sql[1], sql'[1])
      /\ (/\ last = "xml2uml" /\ outcome = "none" /\ "xml" \in produced
          /\ last' = "uml2xml" /\ outcome' = "none")
         => SameXml(xml[1], xml'[1]) ]_vars

\* the foreign keys of a script between two tables the script creates, as
\* (referenced table, referencing table), in statement order
C11SqlFks ==
  LET known == {Creates(sql[1])[i].name : i \in 1..Len(Creates(sql[1]))}
      fks == SelectSeq(AddFks(sql[1]),
                       LAMBDA st : Some(st.table) \in known /\ Some(st.ref) \in known)
  IN  [i \in 1..Len(fks) |-> [ref |-> Some(fks[i].ref), src |-> Some(fks[i].table)]]

\* the foreignKey elements of a schema markup document between two tables of
\* the document, in document order
RECURSIVE C11XmlFksUpTo(_)
C11XmlFksUpTo(n) ==
  IF n = 0 THEN <<>>
  ELSE LET t == xml[1].tables[n]
           fks == SelectSeq(t.fks, LAMBDA fk : fk.targetTable \in XmlTableNames(xml[1]))
       IN  C11XmlFksUpTo(n - 1)
             \o [i \in 1..Len(fks) |-> [ref |-> fks[i].targetTable, src |-> t.name]]

C11XmlFks == C11XmlFksUpTo(Len(xml[1].tables))

ReverseDone == last \in {"sql2uml", "xml2uml"} /\ outcome = "none"

\* C11: after a SQL script -> UML or schema markup -> UML conversion there
\* is one association element per foreign key between known tables, and
\* every association element has exactly two ends: the first typed by the
\* class of the referenced table with lower 1 and upper 1, the second typed
\* by the class of the referencing table with lower 0 and upper "-1"; both
\* types are identifiers of classes of the same output.
C11_AssociationEnds ==
  ReverseDone =>
    LET out == uml[1]
        fks == IF last = "sql2uml" THEN C11SqlFks ELSE C11XmlFks
        IsClassOf(t, name) ==
          \E k \in 1..Len(out.classes) :
             out.classes[k].id = t /\ out.classes[k].name = name
    IN  /\ Len(out.assocs) = Len(fks)
        /\ \A i \in 1..Len(out.assocs) :
             LET ends == out.assocs[i].ends
             IN  /\ Len(ends) = 2
                 /\ i <= Len(fks)
                 /\ IsClassOf(ends[1].type, fks[i].ref)
                 /\ ends[1].lower = Some(s1) /\ ends[1].upper = Some(s1)
                 /\ IsClassOf(ends[2].type, fks[i].src)
                 /\ ends[2].lower = Some(s0) /\ ends[2].upper = Some(sMinus1)


\* the classification of a SQL type string the conversions are to apply, on
\* the upper-cased string
toPrimitiveType(t) ==
  LET u == Upper(t)
  IN  IF Contains(sINT, u) THEN sInteger
      ELSE IF \E w \in {sCHAR, sTEXT, sVARCHAR} : Contains(w, u) THEN sString
      ELSE IF \E w \in {sFLOAT, sDOUBLE, sREAL} : Contains(w, u) THEN sFloat
      ELSE IF Contains(sBOOLEAN, u) THEN sBoolean
      ELSE IF Contains(sDATE, u) THEN sDate
      ELSE sString

\* the SQL type strings of the columns the i-th table of the input gives
\* attributes for, in order
C12ColumnTypes(i) ==
  IF last = "sql2uml"
  THEN LET cols == SelectSeq(Creates(sql[1])[i].defs, DefIsColumn)
       IN  [k \in 1..Len(cols) |-> DefParts(cols[k])[2]]
  ELSE [k \in 1..Len(xml[1].tables[i].columns) |-> xml[1].tables[i].columns[k].type[1]]

\* C12: after a SQL script -> UML or schema markup -> UML conversion the
\* type of every attribute is the classification of its column's SQL type
\* string, whatever the letter case of that string.
C12_TypeClassification ==
  ReverseDone =>
    \A i \in 1..Len(uml[1].classes) :
      LET attrs == uml[1].classes[i].attrs
          types == C12ColumnTypes(i)
      IN  /\ Len(attrs) = Len(types)
          /\ \A k \in 1..Len(attrs) : attrs[k].type = Some(toPrimitiveType(types[k]))


(***************************************************************************)
(* Calls in any order on any input: between conversions a caller may put   *)
(* any input text in any pane, so that every entry point is called on      *)
(* fresh inputs after other calls have succeeded or failed.                *)
(***************************************************************************)
CallUmlInputs ==
  { Uml(<<Class(Some(s1), Some(sA), <<[name |-> Some(sn), type |-> Some(sXyz)]>>)>>, <<>>),
    Uml(TwoClasses, <<[ends |-> <<End(Some(s1), Absent, Absent, Some(s1)),
                                  End(Some(<<"2">>), Some(sr), Absent, Some(<<"*">>))>>]>>),
    Uml(TwoClasses, <<[ends |-> <<End(Some(s1), Absent, Some(sx), Some(s1)),
                                  End(Some(<<"2">>), Absent, Absent, Some(<<"*">>))>>]>>),
    MalformedUml }

CallSqlInputs == {d \in SqlInputs : Len(d.stmts) = 1}

CallXmlInputs ==
  {d \in XmlInputs : d.wf => /\ d.tables[2].name # Absent
                             /\ d.tables[2].columns[1].name # Absent
                             /\ Len(d.tables[2].fks) = 0}

\* lines 589-593, 633-637: the UML text area is filled in
PasteUml ==
  /\ steps < MaxSteps
  /\ \E d \in CallUmlInputs : uml' = Some(d)
  /\ UNCHANGED <<sql, xml, last, outcome, produced, steps, TYPE_MAPPING>>

\* lines 611-615: the SQL text area is filled in
PasteSql ==
  /\ steps < MaxSteps
  /\ \E d \in CallSqlInputs : sql' = Some(d)
  /\ UNCHANGED <<uml, xml, last, outcome, produced, steps, TYPE_MAPPING>>

\* lines 655-659: the schema markup text area is filled in
PasteXml ==
  /\ steps < MaxSteps
  /\ \E d \in CallXmlInputs : xml' = Some(d)
  /\ UNCHANGED <<uml, sql, last, outcome, produced, steps, TYPE_MAPPING>>

InitCalls ==
  /\ uml = Absent /\ sql = Absent /\ xml = Absent
  /\ last = "none"
  /\ outcome = "none"
  /\ produced = {}
  /\ steps = 0
  /\ TYPE_MAPPING = TypeMappingTable

NextCalls ==
  \/ PasteUml
  \/ PasteSql
  \/ PasteXml
  \/ ConvertUmlToSql
  \/ ConvertSqlToUml
  \/ ConvertUmlToXml
  \/ ConvertXmlToUml

SpecCalls == InitCalls /\ [][NextCalls]_vars

ScriptModel(script) ==
  [i \in 1..Len(Creates(script)) |->
     LET t == Creates(script)[i]
         keyed == UNION {Range(StmtPkClauses(t)[k]) : k \in 1..Len(StmtPkClauses(t))}
         own == StmtColumns(t)
         added == SelectSeq(AddCols(script), LAMBDA st : Some(st.table) = t.name)
         fks == SelectSeq(AddFks(script), LAMBDA st : Some(st.table) = t.name)
     IN  [name |-> t.name[1],
          columns |->
            [k \in 1..Len(own) |->
               LET pk == own[k].pk \/ own[k].name \in keyed
               IN  [name |-> own[k].name, type |-> own[k].type, pk |-> pk,
                    nullable |-> ~pk /\ ~own[k].notnull]]
            \o [k \in 1..Len(added) |->
                  [name |-> added[k].col, type |-> sINT, pk |-> FALSE, nullable |-> TRUE]],
          fks |-> {<<fk.col, fk.ref, fk.refcol>> : fk \in Range(StmtFkClauses(t))}
                  \cup {<<fks[k].col, fks[k].ref, fks[k].refcol>> : k \in 1..Len(fks)}]]

\* the relational model a schema markup document describes
MarkupModel(doc) ==
  [i \in 1..Len(doc.tables) |->
     LET t == doc.tables[i]
     IN  [name |-> t.name[1],
          columns |->
            [k \in 1..Len(t.columns) |->
               [name |-> t.columns[k].name[1], type |-> t.columns[k].type[1],
                pk |-> t.columns[k].primaryKey = "true",
                nullable |-> t.columns[k].nullable = "true"]],
          fks |-> {<<fk.refs[1].localColumn[1], fk.targetTable[1], fk.refs[1].foreignColumn[1]>> :
                     fk \in Range(t.fks)}]]

\* C14: the SQL script and the schema markup generated from one class model
\* describe the same tables in the same order, with the same columns (name,
\* type, primary-key designation, nullability) and the same foreign keys,
\* and no primary-key column is nullable.
C14_SameRelationalModel ==
  /\ SqlDone =>
       LET other == generate_sql_xml_from_uml_content(TYPE_MAPPING, uml[1])
       IN  other.ok /\ ScriptModel(sql[1]) = MarkupModel(other.out)
  /\ XmlDone =>
       LET other == generate_sql_from_uml_content(TYPE_MAPPING, uml[1])
       IN  /\ other.ok /\ ScriptModel(other.out) = MarkupModel(xml[1])
           /\ \A i \in 1..Len(MarkupModel(xml[1])) :
                \A c \in Range(MarkupModel(xml[1])[i].columns) : c.pk => ~c.nullable


==========================================================================
